---- MODULE Spec2Model ----
(***************************************************************************)
(* A model of the ragflow-core backend: the chunker (TextProcessor), the   *)
(* document store (DocumentService, CollectionService, the collection      *)
(* endpoints and the vector index behind VectorService), the chat          *)
(* orchestration (RAGService over LLMService), the search pipeline         *)
(* (SearchService over VectorService.search), the context ranker and the   *)
(* vector collection's creation.                                           *)
(*                                                                         *)
(* The specifications share the module's variables:                        *)
(*   Spec       the document store: uploads, deletes, collections;         *)
(*   SpecChunk  one call of TextProcessor.chunk_text, one loop iteration   *)
(*              per step;                                                  *)
(*   SpecChat   the LLM gateway's initialisation, then a health check, a   *)
(*              chat_with_documents request or a simple_chat request;      *)
(*   SpecSearch one SearchService.semantic_search request over an index;   *)
(*   SpecRank   one call of RAGService._filter_and_rank_chunks;            *)
(*   SpecEnsure concurrent runs of VectorService._ensure_collection;       *)
(*   SpecClean  one call of SearchService._clean_and_highlight_text;       *)
(*   SpecChatLive  SpecChat under the fairness the code's timeouts give.   *)
(* Each specification leaves the other groups of variables at their idle   *)
(* values.                                                                 *)
(***************************************************************************)
EXTENDS Integers, Sequences, FiniteSets, TLC

VARIABLES
    \* ---- chunk_text (SpecChunk)
    text,         \* the text argument, a sequence of characters
    argSize,      \* the chunk_size argument as passed (None: omitted)
    argOverlap,   \* the overlap argument as passed (None: omitted)
    chunk_size,   \* the local chunk_size after line 37
    overlap,      \* the local overlap after line 38
    start,        \* the local start
    chunks,       \* the local chunks, the list returned
    wins,         \* history: the <<start, end>> span of text behind every slice
                  \* taken (one per iteration; the whole text on line 41)
    cpc           \* position in chunk_text: "call", "loop", "done"
    ,
    \* ---- the document store (Spec)
    documents,    \* the documents table: id -> row, for the rows that exist
    collections,  \* the collections table: id -> row
    points,       \* the vector index: the points of the "documents" collection
    files,        \* the upload directory: ids of the documents whose file is on disk
    up,           \* the upload request in flight and its position in upload_document
    ghost,        \* history, per uploaded document: the statuses committed, in
                  \* order; whether processing raised; what upload_document
                  \* did at its end and the DocumentResponse it returned;
                  \* whether delete_document returned True
    \* ---- the chat request (SpecChat)
    llm,          \* LLMService: the initialised clients and the default provider,
                  \* and what its initialisation met
    chat,         \* the chat request in flight and its position in chat_with_documents
    response,     \* the ChatResponse returned
    health,       \* the check_provider_health call made, and what it returned
    \* ---- semantic_search (SpecSearch; it reads documents and points)
    srch,         \* the search request in flight: its position, the hits the
                  \* vector search returned, the loop's locals, the results
    \* ---- _filter_and_rank_chunks (SpecRank)
    rank,         \* the call: its arguments, its position, the list returned
    \* ---- _ensure_collection (SpecEnsure)
    qdrant,       \* the names of the collections the Qdrant server holds
    ensure,       \* per caller: its position in _ensure_collection
    \* ---- _clean_and_highlight_text (SpecClean)
    clean         \* the text handed to the cleanup stage and the display text

chunkVars == <<text, argSize, argOverlap, chunk_size, overlap, start, chunks, wins, cpc>>

storeVars == <<documents, collections, points, files, up, ghost>>

chatVars == <<llm, chat, response, health>>

searchVars == <<srch>>

rankVars == <<rank>>

ensureVars == <<qdrant, ensure>>

cleanVars == <<clean>>

vars == <<chunkVars, storeVars, chatVars, searchVars, rankVars, ensureVars, cleanVars>>

\* Python's None for an omitted integer argument.
None == -1

----------------------------------------------------------------------------
(* Bounds of the model. *)

\* Longest text handed to chunk_text.
MaxLen == 6
\* Largest chunk_size and overlap argument handed to chunk_text.
MaxArg == 5

\* Documents uploaded in one behaviour.
MaxDocs == 1
\* Collections created in one behaviour.
MaxCols == 2
\* Most chunks one document's text is split into.
MaxChunks == 11

\* Points in the index a search runs against.
MaxHits == 3
\* Chunks handed to _filter_and_rank_chunks.
MaxRankChunks == 3
\* Concurrent callers of _ensure_collection.
MaxCallers == 3

(* Program constants. *)

\* batch_size in VectorService.add_document_chunks
BatchSize == 10

\* settings.chunk_size
DefaultChunkSize == 1000
\* settings.chunk_overlap
DefaultChunkOverlap == 200

\* The loop of chunk_text is followed for at most this many iterations; a
\* call that returns does so within Len(text) + 1 iterations at these bounds.
MaxIter == MaxLen + 2

Chars == {"a", " ", "."}
Texts == UNION {[1..n -> Chars] : n \in 0..MaxLen}
Args == {None} \cup (0..MaxArg)

----------------------------------------------------------------------------
(* Python's str and int operations, as chunk_text uses them. *)

SetMax(S) == CHOOSE x \in S : \A y \in S : y <= x

\* x or d, for an int (or None) x: the default replaces None and 0 alike.
PyOr(x, d) == IF x = None \/ x = 0 THEN d ELSE x

\* A slice bound i of a string of length n, as Python clamps it.
PyIndex(i, n) ==
    IF i < 0 THEN (IF i + n < 0 THEN 0 ELSE i + n)
             ELSE (IF i > n THEN n ELSE i)

\* t[s:e]
Slice(t, s, e) ==
    LET lo == PyIndex(s, Len(t))
        hi == PyIndex(e, Len(t))
    IN  IF lo >= hi THEN <<>> ELSE SubSeq(t, lo + 1, hi)

\* t.rfind(ch, s, e): the highest 0-based index in t[s:e] holding ch, or -1.
rfind(t, ch, s, e) ==
    LET lo == PyIndex(s, Len(t))
        hi == PyIndex(e, Len(t))
        hits == {p \in lo..(hi - 1) : t[p + 1] = ch}
    IN  IF hits = {} THEN -1 ELSE SetMax(hits)

IsSpace(c) == c = " "

\* t.strip()
strip(t) ==
    LET keep == {p \in 1..Len(t) : ~IsSpace(t[p])}
    IN  IF keep = {} THEN <<>>
        ELSE SubSeq(t, CHOOSE p \in keep : \A q \in keep : p <= q, SetMax(keep))

----------------------------------------------------------------------------
(* TextProcessor.chunk_text *)

\* Line 40: the whole text is returned as the only segment.
ShortPathMut(t, size) == Len(t) < size
ShortPath(t, size) == Len(t) <= size

\* Lines 47-59: the end of the window that starts at s.
WindowEnd(t, size, s) ==
    LET end == s + size
        sentence_end == rfind(t, ".", s, end)
        word_end == rfind(t, " ", s, end)
    IN  IF end < Len(t)
        THEN IF sentence_end > s + (size \div 2) THEN sentence_end + 1
             ELSE IF word_end > s + (size \div 2) THEN word_end
             ELSE end
        ELSE end

\* Lines 62-63: a stripped chunk is appended when it is not empty.
AppendChunkMut(cs, chunk) == Append(cs, chunk)
AppendChunk(cs, chunk) == IF chunk # <<>> THEN Append(cs, chunk) ELSE cs

\* Line 65: where the next window starts.
NextStartMut(end, ov) == end + ov
NextStart(end, ov) == end - ov

\* Line 41: the span of the text returned whole.
WholeText(t) == <<0, Len(t)>>

ChunkStart ==
    /\ text \in Texts
    /\ argSize \in Args
    /\ argOverlap \in Args
    /\ chunk_size = 0
    /\ overlap = 0
    /\ start = 0
    /\ chunks = <<>>
    /\ wins = <<>>
    /\ cpc = "call"

ChunkIdle ==
    /\ text = <<>>
    /\ argSize = None
    /\ argOverlap = None
    /\ chunk_size = 0
    /\ overlap = 0
    /\ start = 0
    /\ chunks = <<>>
    /\ wins = <<>>
    /\ cpc = "idle"

\* Lines 37-44: the defaults, then the short text returned whole or the walk begun.
ChunkEnter ==
    /\ cpc = "call"
    /\ chunk_size' = PyOr(argSize, DefaultChunkSize)
    /\ overlap' = PyOr(argOverlap, DefaultChunkOverlap)
    /\ start' = 0
    /\ IF ShortPath(text, chunk_size')
       THEN chunks' = <<text>> /\ wins' = <<WholeText(text)>> /\ cpc' = "done"
       ELSE chunks' = <<>> /\ wins' = <<>> /\ cpc' = "loop"
    /\ UNCHANGED <<text, argSize, argOverlap>>
    /\ UNCHANGED <<storeVars, chatVars, searchVars, rankVars, ensureVars, cleanVars>>

\* Lines 46-65: one iteration of the while loop.
ChunkStep ==
    /\ cpc = "loop"
    /\ start < Len(text)
    /\ Len(wins) < MaxIter
    /\ LET end == WindowEnd(text, chunk_size, start)
           chunk == strip(Slice(text, start, end))
       IN  /\ chunks' = AppendChunk(chunks, chunk)
           /\ wins' = Append(wins, <<start, end>>)
           /\ start' = NextStart(end, overlap)
    /\ UNCHANGED <<text, argSize, argOverlap, chunk_size, overlap, cpc>>
    /\ UNCHANGED <<storeVars, chatVars, searchVars, rankVars, ensureVars, cleanVars>>

\* Lines 46, 67: the loop condition fails and chunks is returned.
ChunkReturn ==
    /\ cpc = "loop"
    /\ start >= Len(text)
    /\ cpc' = "done"
    /\ UNCHANGED <<text, argSize, argOverlap, chunk_size, overlap, start, chunks, wins>>
    /\ UNCHANGED <<storeVars, chatVars, searchVars, rankVars, ensureVars, cleanVars>>

ChunkNext == ChunkEnter \/ ChunkStep \/ ChunkReturn

----------------------------------------------------------------------------
(* The document store: DocumentService, CollectionService, the collection   *)
(* endpoints, and the vector index as VectorService uses it.  Requests run  *)
(* one after the other; an upload is followed commit by commit.             *)

DocIds == 1..MaxDocs
ColIds == 1..MaxCols
ColNames == {"Default Collection", "Other"}

\* The lengths of extracted text: empty, short, exactly chunk_size, longer.
TextLens == {0, DefaultChunkSize, DefaultChunkSize + 1}

\* str(e) of what extract_text (lines 21, 33, and its readers) raises.
ExtractErrors == {"File not found", "Unsupported file type"}
\* str(e) of what QdrantClient.upsert raises.
UpsertErrors == {"qdrant upsert failed"}

\* How many chunks chunk_text(content) returns under the default settings:
\* one for a text no longer than chunk_size (line 41), else what the walk finds.
\* The counts followed for a longer text: none, one, and from a full batch up.
ChunkCounts(tlen) ==
    IF ShortPath([k \in 1..tlen |-> "a"], DefaultChunkSize) THEN {1}
    ELSE {0, 1} \cup (BatchSize..MaxChunks)

\* f with row r at key k, and f without key k.
Put(f, k, r) == [x \in DOMAIN f \cup {k} |-> IF x = k THEN r ELSE f[x]]
Drop(f, K) == [x \in DOMAIN f \ K |-> f[x]]

NoUpload == [pc |-> "idle", doc |-> 0, tlen |-> 0, n |-> 0, i |-> 0, ids |-> {}, err |-> ""]

\* _sanitize_filename, line 238: the characters kept as they are.
SafeChars ==
    {"a", "b", "c", "d", "e", "f", "g", "h", "i", "j", "k", "l", "m",
     "n", "o", "p", "q", "r", "s", "t", "u", "v", "w", "x", "y", "z",
     "A", "B", "C", "D", "E", "F", "G", "H", "I", "J", "K", "L", "M",
     "N", "O", "P", "Q", "R", "S", "T", "U", "V", "W", "X", "Y", "Z",
     "0", "1", "2", "3", "4", "5", "6", "7", "8", "9", ".", "-", "_"}
\* _sanitize_filename, line 240: the longest name kept
MaxFilenameLength == 255

\* _sanitize_filename, lines 235-240, of a name given as its characters.
SanitizeFilename(filename) ==
    Slice([i \in DOMAIN filename |-> IF filename[i] \in SafeChars THEN filename[i] ELSE "_"],
          0, MaxFilenameLength)

\* The file of an upload: the plain-text file test.txt.
UploadedFile ==
    [filename |-> <<"t", "e", "s", "t", ".", "t", "x", "t">>, content_type |-> "text/plain"]

\* models/document.py: the row upload_document adds (lines 44-52) with the
\* column defaults.
NewDocument(cid) ==
    [status |-> "pending", error_message |-> "", chunks_count |-> 0,
     vector_ids |-> {}, collection_id |-> cid,
     filename |-> SanitizeFilename(UploadedFile.filename),
     content_type |-> UploadedFile.content_type]

\* DocumentResponse.from_orm(document), line 70: the fields of the row as
\* they are when the response is built.
DocumentResponse(row) ==
    [status |-> row.status, filename |-> row.filename, content_type |-> row.content_type]

NoDocumentResponse == [status |-> "", filename |-> <<>>, content_type |-> ""]

\* models/collection.py: a new row with the column defaults.
NewCollection(name) == [name |-> name, documents_count |-> 0, total_chunks |-> 0]

\* A commit of document d's row: the status it makes visible is logged.
Logged(d, row) ==
    IF d \in DOMAIN ghost
    THEN [ghost EXCEPT ![d].log =
            IF row.status = @[Len(@)] THEN @ ELSE Append(@, row.status)]
    ELSE Put(ghost, d, [log |-> <<row.status>>, raised |-> FALSE,
                        upload |-> "running", deleted |-> FALSE,
                        response |-> NoDocumentResponse])

StoreInit ==
    /\ documents = <<>>
    /\ collections = <<>>
    /\ points = {}
    /\ files = {}
    /\ up = NoUpload
    /\ ghost = <<>>

\* _get_or_create_collection, lines 219-233: the collections named
\* "Default Collection" (first() takes one of them).
DefaultCollections == {c \in DOMAIN collections : collections[c].name = "Default Collection"}

FreshDoc == Cardinality(DOMAIN ghost) + 1
FreshCol == IF DOMAIN collections = {} THEN 1 ELSE SetMax(DOMAIN collections \cup {0}) + 1

\* upload_document, lines 35-56: validation, the collection, the file, the
\* pending row and its commit.  cid = None: no collection_id given.  (A
\* request refused on line 35 or 38 has written nothing.)
UploadBegin(cid) ==
    /\ up.pc = "idle"
    /\ FreshDoc <= MaxDocs
    /\ cid = None \/ cid \in DOMAIN collections
    /\ LET d == FreshDoc
           made == cid = None /\ DefaultCollections = {}
       IN  /\ made => FreshCol <= MaxCols
           /\ \E c \in (IF cid # None THEN {cid}
                        ELSE IF made THEN {FreshCol} ELSE DefaultCollections) :
                /\ collections' = IF made THEN Put(collections, c, NewCollection("Default Collection"))
                                          ELSE collections
                /\ documents' = Put(documents, d, NewDocument(c))
                /\ ghost' = Logged(d, NewDocument(c))
           /\ files' = files \cup {d}
           /\ up' = [NoUpload EXCEPT !.pc = "pending", !.doc = d]
    /\ UNCHANGED points
    /\ UNCHANGED <<chunkVars, chatVars, searchVars, rankVars, ensureVars, cleanVars>>

\* _process_document_sync, lines 78-80.
ProcessStart ==
    /\ up.pc = "pending"
    /\ documents' = [documents EXCEPT ![up.doc].status = "processing"]
    /\ ghost' = Logged(up.doc, documents'[up.doc])
    /\ up' = [up EXCEPT !.pc = "processing"]
    /\ UNCHANGED <<collections, points, files>>
    /\ UNCHANGED <<chunkVars, chatVars, searchVars, rankVars, ensureVars, cleanVars>>

\* _process_document_sync, lines 84-89: the text is extracted and chunked.
ExtractAndChunk ==
    /\ up.pc = "processing"
    /\ \E tlen \in TextLens : \E n \in ChunkCounts(tlen) :
         up' = [up EXCEPT !.pc = "storing", !.tlen = tlen, !.n = n, !.i = 0]
    /\ UNCHANGED <<documents, collections, points, files, ghost>>
    /\ UNCHANGED <<chunkVars, chatVars, searchVars, rankVars, ensureVars, cleanVars>>

\* _process_document_sync, line 84: extract_text raises.
ExtractRaises ==
    /\ up.pc = "processing"
    /\ \E e \in ExtractErrors : up' = [up EXCEPT !.pc = "raised", !.err = e]
    /\ ghost' = [ghost EXCEPT ![up.doc].raised = TRUE]
    /\ UNCHANGED <<documents, collections, points, files>>
    /\ UNCHANGED <<chunkVars, chatVars, searchVars, rankVars, ensureVars, cleanVars>>

\* add_document_chunks, line 55: the chunk indexes of the batch that starts at i.
BatchIndexesMut(i, n) == i..((IF i + BatchSize < n THEN i + BatchSize ELSE n) - 2)
BatchIndexes(i, n) == i..((IF i + BatchSize < n THEN i + BatchSize ELSE n) - 1)

\* add_document_chunks, lines 59-79: the points of a batch; a point's fresh
\* uuid is written as the pair of its document and chunk index.
BatchPoints(d, i, n) ==
    {[id |-> <<d, j>>, document_id |-> d, chunk_index |-> j] : j \in BatchIndexes(i, n)}

\* add_document_chunks, lines 54-90: one batch is embedded and upserted.
UpsertBatch ==
    /\ up.pc = "storing"
    /\ up.i < up.n
    /\ points' = points \cup BatchPoints(up.doc, up.i, up.n)
    /\ up' = [up EXCEPT !.i = @ + BatchSize,
                        !.ids = @ \cup {q.id : q \in BatchPoints(up.doc, up.i, up.n)}]
    /\ UNCHANGED <<documents, collections, files, ghost>>
    /\ UNCHANGED <<chunkVars, chatVars, searchVars, rankVars, ensureVars, cleanVars>>

\* add_document_chunks, lines 92-94: the upsert of a batch raises; the
\* batches before it stay in the index.
UpsertRaises ==
    /\ up.pc = "storing"
    /\ up.i < up.n
    /\ \E e \in UpsertErrors : up' = [up EXCEPT !.pc = "raised", !.err = e]
    /\ ghost' = [ghost EXCEPT ![up.doc].raised = TRUE]
    /\ UNCHANGED <<documents, collections, points, files>>
    /\ UNCHANGED <<chunkVars, chatVars, searchVars, rankVars, ensureVars, cleanVars>>

\* _process_document_sync, lines 100-105: the row of a processed document.
CompletedRow(row, n, ids) ==
    [row EXCEPT !.chunks_count = n, !.vector_ids = ids, !.status = "completed"]

\* upload_document, lines 64-67: the row of a document whose processing raised.
FailedRowMut(row, e) == [row EXCEPT !.status = "failed"]
FailedRow(row, e) == [row EXCEPT !.status = "failed", !.error_message = e]

\* _process_document_sync, lines 97-105: every batch is stored; the row is
\* completed and committed.
ProcessComplete ==
    /\ up.pc = "storing"
    /\ up.i >= up.n
    /\ documents' = [documents EXCEPT ![up.doc] = CompletedRow(@, up.n, up.ids)]
    /\ ghost' = Logged(up.doc, documents'[up.doc])
    /\ up' = [up EXCEPT !.pc = "returning"]
    /\ UNCHANGED <<collections, points, files>>
    /\ UNCHANGED <<chunkVars, chatVars, searchVars, rankVars, ensureVars, cleanVars>>

\* upload_document, lines 61-67 (after lines 109-111 re-raise): the failure is
\* recorded and committed.
ProcessFailed ==
    /\ up.pc = "raised"
    /\ documents' = [documents EXCEPT ![up.doc] = FailedRow(@, up.err)]
    /\ ghost' = Logged(up.doc, documents'[up.doc])
    /\ up' = [up EXCEPT !.pc = "returning"]
    /\ UNCHANGED <<collections, points, files>>
    /\ UNCHANGED <<chunkVars, chatVars, searchVars, rankVars, ensureVars, cleanVars>>

\* upload_document, lines 69-70: the DocumentResponse is returned.
UploadReturn ==
    /\ up.pc = "returning"
    /\ ghost' = [ghost EXCEPT ![up.doc].upload = "returned",
                              ![up.doc].response = DocumentResponse(documents[up.doc])]
    /\ up' = NoUpload
    /\ UNCHANGED <<documents, collections, points, files>>
    /\ UNCHANGED <<chunkVars, chatVars, searchVars, rankVars, ensureVars, cleanVars>>

\* delete_document_vectors, lines 160-170: the points left after the delete
\* by document_id.
WithoutVectorsOf(pts, d) == {q \in pts : q.document_id # d}

\* delete_document, line 151: whether the vectors are deleted at all.
HasVectorIds(row) == row.vector_ids # {}

\* DocumentService.delete_document.  vecFails: the index delete raises (lines
\* 174-176 turn it into False, which line 152 drops); unlinkFails: the unlink
\* of line 156 raises (lines 165-168).
DeleteDocument(d, vecFails, unlinkFails) ==
    /\ up.pc = "idle"
    /\ d \in DocIds
    /\ IF d \notin DOMAIN documents
       THEN /\ ~vecFails /\ ~unlinkFails
            /\ UNCHANGED <<documents, points, files, ghost>>
       ELSE /\ vecFails => HasVectorIds(documents[d])
            /\ unlinkFails => d \in files
            /\ points' = IF HasVectorIds(documents[d]) /\ ~vecFails
                         THEN WithoutVectorsOf(points, d) ELSE points
            /\ IF unlinkFails
               THEN UNCHANGED <<documents, files, ghost>>
               ELSE /\ files' = files \ {d}
                    /\ documents' = Drop(documents, {d})
                    /\ ghost' = [ghost EXCEPT ![d].deleted = TRUE]
    /\ UNCHANGED <<collections, up>>
    /\ UNCHANGED <<chunkVars, chatVars, searchVars, rankVars, ensureVars, cleanVars>>

\* What that call of delete_document returns: False on line 147 for a
\* document that is not there and on line 168 after an exception, else True
\* on line 163.
DeleteDocumentReturns(d, vecFails, unlinkFails) == d \in DOMAIN documents /\ ~unlinkFails

\* The documents of collection c.
DocumentsOf(c) == {d \in DOMAIN documents : documents[d].collection_id = c}

\* create_collection (endpoint lines 11-33, service lines 21-33).
CreateCollection(name) ==
    /\ up.pc = "idle"
    /\ FreshCol <= MaxCols
    /\ collections' = Put(collections, FreshCol, NewCollection(name))
    /\ UNCHANGED <<documents, points, files, up, ghost>>
    /\ UNCHANGED <<chunkVars, chatVars, searchVars, rankVars, ensureVars, cleanVars>>

\* update_collection (endpoint lines 96-121, service lines 63-85).
UpdateCollection(c, name) ==
    /\ up.pc = "idle"
    /\ c \in DOMAIN collections
    /\ collections[c].name # name
    /\ collections' = [collections EXCEPT ![c].name = name]
    /\ UNCHANGED <<documents, points, files, up, ghost>>
    /\ UNCHANGED <<chunkVars, chatVars, searchVars, rankVars, ensureVars, cleanVars>>

\* The endpoint delete_collection, lines 123-144: the documents_count column
\* decides; deleting the row leaves its documents, their collection_id set to
\* NULL (the relationship of models/collection.py line 29 has no delete cascade).
EndpointDeleteCollection(c, force) ==
    /\ up.pc = "idle"
    /\ c \in DOMAIN collections
    /\ IF collections[c].documents_count > 0 /\ ~force
       THEN UNCHANGED <<documents, collections>>
       ELSE /\ collections' = Drop(collections, {c})
            /\ documents' = [d \in DOMAIN documents |->
                                IF documents[d].collection_id = c
                                THEN [documents[d] EXCEPT !.collection_id = None]
                                ELSE documents[d]]
    /\ UNCHANGED <<points, files, up, ghost>>
    /\ UNCHANGED <<chunkVars, chatVars, searchVars, rankVars, ensureVars, cleanVars>>

\* CollectionService.delete_collection, lines 87-116: the documents are
\* counted; with force their rows are deleted, then the collection's.
ServiceDeleteCollection(c, force) ==
    /\ up.pc = "idle"
    /\ c \in DOMAIN collections
    /\ IF Cardinality(DocumentsOf(c)) > 0 /\ ~force
       THEN UNCHANGED <<documents, collections>>
       ELSE /\ documents' = Drop(documents, DocumentsOf(c))
            /\ collections' = Drop(collections, {c})
    /\ UNCHANGED <<points, files, up, ghost>>
    /\ UNCHANGED <<chunkVars, chatVars, searchVars, rankVars, ensureVars, cleanVars>>

StoreNext ==
    \/ \E cid \in {None} \cup ColIds : UploadBegin(cid)
    \/ ProcessStart
    \/ ExtractAndChunk
    \/ ExtractRaises
    \/ UpsertBatch
    \/ UpsertRaises
    \/ ProcessComplete
    \/ ProcessFailed
    \/ UploadReturn
    \/ \E d \in DocIds : \E vecFails, unlinkFails \in BOOLEAN : DeleteDocument(d, vecFails, unlinkFails)
    \/ \E name \in ColNames : CreateCollection(name)
    \/ \E c \in ColIds : \E name \in ColNames : UpdateCollection(c, name)
    \/ \E c \in ColIds : \E force \in BOOLEAN : EndpointDeleteCollection(c, force)
    \/ \E c \in ColIds : \E force \in BOOLEAN : ServiceDeleteCollection(c, force)

----------------------------------------------------------------------------
(* A chat request: RAGService.chat_with_documents over LLMService.          *)

\* An Optional[str] that is None.
Null == "null"

Providers == {"gemini", "ollama"}

\* rag_service.py line 84
ChatApology == "I apologize, but I encountered an error while processing your request. Please try again."
\* llm_service.py line 68
GeminiFallback == "I apologize, but I couldn't generate a response. Please try again."

\* ChatRequest (schemas/chat.py lines 23-35): the provider asked for, and the
\* optional numbers; temperature in tenths.
\* rag_service.py line 195: the history entries kept
HistoryWindow == 10
\* The longest conversation history of a request.
MaxHistory == 11

\* ChatRequest.conversation_history (schemas/chat.py lines 16-21 and 27): a
\* list of ConversationMessage objects, which pydantic builds from what the
\* caller sent; content i stands for the text of the i-th entry.
History(n) ==
    [i \in 1..n |-> [kind |-> "ConversationMessage",
                     role |-> IF i % 2 = 1 THEN "user" ELSE "assistant",
                     content |-> i]]

Requests ==
    [provider : {Null, "gemini", "ollama", "bogus"},
     max_tokens : {None, 0, 500},
     temperature : {None, 0, 3},
     max_results : {None, 0, 2},
     history : {History(n) : n \in {0, 2, MaxHistory}}]

\* What a client's generate_response does: it returns a text, or raises an
\* error with this str().  Gemini (lines 45-72) returns the fallback for an
\* empty body and wraps every error; Ollama (lines 104-140) returns the
\* stripped content, which may be empty, and wraps every error.  body is the
\* text the provider sent (Null: it sent none).
ClientOutcomes(p) ==
    IF p = "gemini"
    THEN {[raised |-> FALSE, body |-> "An answer from the documents.",
           value |-> "An answer from the documents."],
          [raised |-> FALSE, body |-> "", value |-> GeminiFallback],
          [raised |-> TRUE, body |-> Null, value |-> "Gemini API error: " \o "deadline exceeded"],
          [raised |-> TRUE, body |-> Null, value |-> "Gemini API error: " \o ""]}
    ELSE {[raised |-> FALSE, body |-> "An answer from the documents.",
           value |-> "An answer from the documents."],
          [raised |-> FALSE, body |-> "", value |-> ""],
          [raised |-> TRUE, body |-> Null,
           value |-> "Ollama API error: " \o "Ollama service is not available"],
          [raised |-> TRUE, body |-> Null,
           value |-> "Ollama API error: " \o "Ollama API error 500: "],
          [raised |-> TRUE, body |-> Null, value |-> "Ollama API error: " \o ""]}

\* len(response.split()) of the texts above (line 260).
WordCount(r) ==
    CASE r = "An answer from the documents." -> 5
      [] r = GeminiFallback -> 11
      [] OTHER -> 0

NoChat ==
    [pc |-> "idle", req |-> [provider |-> Null, max_tokens |-> None,
                             temperature |-> None, max_results |-> None,
                             history |-> <<>>],
     top_k |-> 0, sources |-> 0, searchRaised |-> FALSE, system |-> Null,
     messages |-> <<>>,
     clientRaised |-> FALSE, called |-> Null, exc |-> Null,
     sent |-> [max_tokens |-> None, temperature |-> None],
     llm_result |-> [response |-> Null, provider |-> Null, tokens |-> 0,
                     success |-> FALSE, error |-> Null]]

NoResponse ==
    [message |-> Null, sources |-> 0, provider |-> Null, tokens_used |-> 0,
     success |-> FALSE, error |-> Null]

\* LLMService.__init__, lines 171-172: no clients, the default provider
\* GEMINI.  google_api_key, gemini_built and ollama_probe record what
\* _initialize_clients met.
NoClients ==
    [clients |-> {}, default_provider |-> "gemini",
     google_api_key |-> FALSE, gemini_built |-> FALSE, ollama_probe |-> FALSE]

NoHealth == [pc |-> "idle", provider |-> Null, called |-> FALSE, raised |-> FALSE,
             body |-> Null, healthy |-> FALSE]

ChatIdle ==
    /\ llm = NoClients
    /\ chat = NoChat
    /\ response = NoResponse
    /\ health = NoHealth

\* LLMService.__init__, lines 171-172, before _initialize_clients.
ChatStart ==
    /\ llm = NoClients
    /\ chat = [NoChat EXCEPT !.pc = "init"]
    /\ response = NoResponse
    /\ health = NoHealth

\* _initialize_clients, lines 222-228: the default among the clients made.
DefaultProviderMut(clients, before) == "ollama"
DefaultProvider(clients, before) ==
    IF "gemini" \in clients THEN "gemini"
    ELSE IF "ollama" \in clients THEN "ollama"
    ELSE before

\* get_available_providers, lines 274-276: the keys of clients, in the order
\* _initialize_clients inserts them.
GetAvailableProvidersMut == <<"gemini", "ollama">>
GetAvailableProviders ==
    (IF "gemini" \in llm.clients THEN <<"gemini">> ELSE <<>>)
        \o (IF "ollama" \in llm.clients THEN <<"ollama">> ELSE <<>>)

\* _initialize_clients, lines 175-228.  key: google_api_key is set; built:
\* GeminiClient(...) does not raise (lines 179-183); ollamaUp: the probe of
\* /api/tags answers 200 and the Ollama client is made (lines 186-220).
InitializeClients(key, built, ollamaUp) ==
    /\ chat.pc = "init"
    /\ built => key
    /\ LET clients == (IF key /\ built THEN {"gemini"} ELSE {})
                          \cup (IF ollamaUp THEN {"ollama"} ELSE {})
       IN  llm' = [clients |-> clients,
                   default_provider |-> DefaultProvider(clients, llm.default_provider),
                   google_api_key |-> key, gemini_built |-> built, ollama_probe |-> ollamaUp]
    /\ chat' = [chat EXCEPT !.pc = "ready"]
    /\ UNCHANGED <<response, health>>
    /\ UNCHANGED <<chunkVars, storeVars, searchVars, rankVars, ensureVars, cleanVars>>

\* chat_with_documents is called with a request.
ChatReceive(req) ==
    /\ chat.pc = "ready"
    /\ chat' = [chat EXCEPT !.pc = "received", !.req = req]
    /\ UNCHANGED <<llm, response, health>>
    /\ UNCHANGED <<chunkVars, storeVars, searchVars, rankVars, ensureVars, cleanVars>>

\* rag_service.py line 23
MaxContextChunks == 5

\* chat_with_documents, lines 38-42, and _retrieve_context, lines 100-119.
\* The call on line 102 passes query, collection_id and limit to
\* semantic_search(self, request) and raises a TypeError; the handler of lines
\* 117-119 catches every exception of the retrieval, a failure of the vector
\* index included, and returns no chunks.
RetrieveContext ==
    /\ chat.pc = "received"
    /\ chat' = [chat EXCEPT !.pc = "context_retrieved",
                            !.top_k = PyOr(chat.req.max_results, MaxContextChunks),
                            !.sources = 0, !.searchRaised = TRUE]
    /\ UNCHANGED <<llm, response, health>>
    /\ UNCHANGED <<chunkVars, storeVars, searchVars, rankVars, ensureVars, cleanVars>>

\* The chunks _retrieve_context returned, n of them, in retrieval order.
ContextChunks(n) == [i \in 1..n |-> [document_filename |-> i, text |-> i]]

\* _build_system_prompt, lines 210-234: the generic prompt without chunks,
\* else the instructions around one Document/Content block per chunk.
BuildSystemPrompt(context_chunks) ==
    IF context_chunks = <<>>
    THEN [kind |-> "generic", blocks |-> <<>>]
    ELSE [kind |-> "documents",
          blocks |-> [i \in DOMAIN context_chunks |->
                        [Document |-> context_chunks[i].document_filename,
                         Content |-> context_chunks[i].text]]]

\* conversation_history[-10:] if conversation_history else [] (line 195).
RecentHistory(conversation_history) ==
    IF Len(conversation_history) > HistoryWindow
    THEN SubSeq(conversation_history, Len(conversation_history) - HistoryWindow + 1,
                Len(conversation_history))
    ELSE conversation_history

\* str() of the AttributeError of msg.get on a pydantic model.
NoGetAttribute == "'ConversationMessage' object has no attribute 'get'"

\* _build_conversation_messages, lines 177-208: the system message, the
\* recent history read with msg.get(...) (lines 196-200), the user query.  A
\* dict has get; a ConversationMessage has not, and the first one raises.
BuildConversationMessages(query, context_chunks, conversation_history) ==
    LET recent == RecentHistory(conversation_history)
    IN  IF \E i \in DOMAIN recent : recent[i].kind # "dict"
        THEN [raised |-> TRUE, exc |-> NoGetAttribute, messages |-> <<>>]
        ELSE [raised |-> FALSE, exc |-> Null,
              messages |-> <<[role |-> "system",
                              content |-> BuildSystemPrompt(context_chunks)]>>
                           \o [i \in DOMAIN recent |->
                                 [role |-> recent[i].role, content |-> recent[i].content]]
                           \o <<[role |-> "user", content |-> query]>>]

\* chat_with_documents, lines 47-51: the messages are built from the request's
\* history (request.conversation_history or []); what the builder raises goes
\* to the handler of line 81.
BuildMessages ==
    /\ chat.pc = "context_retrieved"
    /\ LET built == BuildConversationMessages("query", ContextChunks(chat.sources),
                                              chat.req.history)
       IN  IF built.raised
           THEN chat' = [chat EXCEPT !.pc = "failed", !.exc = built.exc]
           ELSE chat' = [chat EXCEPT
                           !.pc = "prompt_built", !.messages = built.messages,
                           !.system = IF chat.sources > 0 THEN "documents" ELSE "generic"]
    /\ UNCHANGED <<llm, response, health>>
    /\ UNCHANGED <<chunkVars, storeVars, searchVars, rankVars, ensureVars, cleanVars>>

\* rag_service.py line 57
DefaultMaxTokens == 1000
\* rag_service.py line 58, in tenths
DefaultTemperature == 7

\* chat_with_documents, lines 57-58: the generation parameters handed on.
GenerationParams(req) ==
    [max_tokens |-> PyOr(req.max_tokens, DefaultMaxTokens),
     temperature |-> PyOr(req.temperature, DefaultTemperature)]

\* LLMService.generate_response, lines 257-262: the result of a call that returned.
GenerationResult(p, r) ==
    [response |-> r, provider |-> p, tokens |-> WordCount(r), success |-> TRUE,
     error |-> Null]

\* LLMService.generate_response, lines 264-272: the result of a call that raised e.
GenerationFailure(p, e) ==
    [response |-> "Error: " \o e, provider |-> p, tokens |-> 0, success |-> FALSE,
     error |-> e]

\* str() of the ValueError of LLMProvider(name) for an unknown name.
NotValidProvider(name) == "'" \o name \o "' is not a valid LLMProvider"

\* str() of a list of provider names.
RECURSIVE Quoted(_)
Quoted(ps) ==
    IF ps = <<>> THEN ""
    ELSE "'" \o Head(ps) \o "'" \o (IF Tail(ps) = <<>> THEN "" ELSE ", " \o Quoted(Tail(ps)))

ListText(ps) == "[" \o Quoted(ps) \o "]"

\* LLMService.generate_response, lines 244-246: the message of the exception
\* raised for a provider without a client.
NotAvailable(p) ==
    "Provider " \o p \o " not available. Available: " \o ListText(GetAvailableProviders)

\* chat_with_documents, lines 54-59, into LLMService.generate_response, lines
\* 240-272.  An unknown provider name (LLMProvider(...), line 56) and a provider
\* without a client (line 246) raise into chat_with_documents; what the client
\* raises is caught on line 264.
Generate ==
    /\ chat.pc = "prompt_built"
    /\ LET p == IF chat.req.provider = Null THEN llm.default_provider ELSE chat.req.provider
       IN  IF p \notin Providers
           THEN chat' = [chat EXCEPT !.pc = "failed", !.exc = NotValidProvider(p)]
           ELSE IF p \notin llm.clients
           THEN chat' = [chat EXCEPT !.pc = "failed", !.exc = NotAvailable(p)]
           ELSE chat' = [chat EXCEPT !.pc = "generating", !.called = p,
                                     !.sent = GenerationParams(chat.req)]
    /\ UNCHANGED <<llm, response, health>>
    /\ UNCHANGED <<chunkVars, storeVars, searchVars, rankVars, ensureVars, cleanVars>>

\* The awaited client call ends: GeminiClient.generate_response, lines 39-72,
\* or OllamaClient.generate_response, lines 98-140, returns or raises, and
\* lines 257-272 of LLMService.generate_response wrap the outcome.
GenerationCompletes ==
    /\ chat.pc = "generating"
    /\ \E o \in ClientOutcomes(chat.called) :
          chat' = [chat EXCEPT
                     !.pc = "generated", !.clientRaised = o.raised,
                     !.llm_result = IF o.raised THEN GenerationFailure(chat.called, o.value)
                                                ELSE GenerationResult(chat.called, o.value)]
    /\ UNCHANGED <<llm, response, health>>
    /\ UNCHANGED <<chunkVars, storeVars, searchVars, rankVars, ensureVars, cleanVars>>

\* chat_with_documents, lines 62-79: the response around the generation result.
Respond ==
    /\ chat.pc = "generated"
    /\ response' = [message |-> chat.llm_result.response,
                    sources |-> chat.sources,
                    provider |-> chat.llm_result.provider,
                    tokens_used |-> chat.llm_result.tokens,
                    success |-> chat.llm_result.success,
                    error |-> IF ~chat.llm_result.success THEN chat.llm_result.error ELSE Null]
    /\ chat' = [chat EXCEPT !.pc = "responded"]
    /\ UNCHANGED <<llm, health>>
    /\ UNCHANGED <<chunkVars, storeVars, searchVars, rankVars, ensureVars, cleanVars>>

\* chat_with_documents, lines 81-90: the response to an exception.
RespondToException ==
    /\ chat.pc = "failed"
    /\ response' = [message |-> ChatApology, sources |-> 0, provider |-> "error",
                    tokens_used |-> 0, success |-> FALSE, error |-> chat.exc]
    /\ chat' = [chat EXCEPT !.pc = "responded"]
    /\ UNCHANGED <<llm, health>>
    /\ UNCHANGED <<chunkVars, storeVars, searchVars, rankVars, ensureVars, cleanVars>>

\* rag_service.py line 276
SimpleApology == "I apologize, but I encountered an error. Please try again."

\* The arguments of simple_chat (lines 236-242): the provider name, and
\* max_tokens and temperature (in tenths) at their defaults or at 0.
SimpleRequests ==
    {[provider |-> p, max_tokens |-> m[1], temperature |-> m[2], max_results |-> None,
      history |-> <<>>] :
        p \in {Null, "gemini", "ollama", "bogus"},
        m \in {<<DefaultMaxTokens, DefaultTemperature>>, <<0, 0>>}}

\* simple_chat is called; lines 246-255 build its two messages.
SimpleChatReceive(req) ==
    /\ chat.pc = "ready"
    /\ chat' = [chat EXCEPT !.pc = "simple_built", !.req = req, !.system = "simple"]
    /\ UNCHANGED <<llm, response, health>>
    /\ UNCHANGED <<chunkVars, storeVars, searchVars, rankVars, ensureVars, cleanVars>>

\* simple_chat, lines 257-262, into LLMService.generate_response, lines
\* 240-272: max_tokens and temperature are handed on as given.
SimpleGenerate ==
    /\ chat.pc = "simple_built"
    /\ LET p == IF chat.req.provider = Null THEN llm.default_provider ELSE chat.req.provider
       IN  IF p \notin Providers
           THEN chat' = [chat EXCEPT !.pc = "simple_failed", !.exc = NotValidProvider(p)]
           ELSE IF p \notin llm.clients
           THEN chat' = [chat EXCEPT !.pc = "simple_failed", !.exc = NotAvailable(p)]
           ELSE chat' = [chat EXCEPT
                           !.pc = "simple_generating", !.called = p,
                           !.sent = [max_tokens |-> chat.req.max_tokens,
                                     temperature |-> chat.req.temperature]]
    /\ UNCHANGED <<llm, response, health>>
    /\ UNCHANGED <<chunkVars, storeVars, searchVars, rankVars, ensureVars, cleanVars>>

\* The awaited client call of simple_chat ends, as in GenerationCompletes.
SimpleGenerationCompletes ==
    /\ chat.pc = "simple_generating"
    /\ \E o \in ClientOutcomes(chat.called) :
          chat' = [chat EXCEPT
                     !.pc = "simple_generated", !.clientRaised = o.raised,
                     !.llm_result = IF o.raised THEN GenerationFailure(chat.called, o.value)
                                                ELSE GenerationResult(chat.called, o.value)]
    /\ UNCHANGED <<llm, response, health>>
    /\ UNCHANGED <<chunkVars, storeVars, searchVars, rankVars, ensureVars, cleanVars>>

\* simple_chat, lines 264-271: the response around the generation result;
\* error keeps its default None.
SimpleRespond ==
    /\ chat.pc = "simple_generated"
    /\ response' = [message |-> chat.llm_result.response,
                    sources |-> 0,
                    provider |-> chat.llm_result.provider,
                    tokens_used |-> chat.llm_result.tokens,
                    success |-> chat.llm_result.success,
                    error |-> Null]
    /\ chat' = [chat EXCEPT !.pc = "simple_responded"]
    /\ UNCHANGED <<llm, health>>
    /\ UNCHANGED <<chunkVars, storeVars, searchVars, rankVars, ensureVars, cleanVars>>

\* simple_chat, lines 273-282: the response to an exception.
SimpleRespondToException ==
    /\ chat.pc = "simple_failed"
    /\ response' = [message |-> SimpleApology, sources |-> 0, provider |-> "error",
                    tokens_used |-> 0, success |-> FALSE, error |-> chat.exc]
    /\ chat' = [chat EXCEPT !.pc = "simple_responded"]
    /\ UNCHANGED <<llm, health>>
    /\ UNCHANGED <<chunkVars, storeVars, searchVars, rankVars, ensureVars, cleanVars>>

\* check_provider_health line 286: max_tokens of the test generation
HealthCheckMaxTokens == 10

\* check_provider_health, lines 278-289: False for a provider without a
\* client; else the client generates for a test message, and the result is
\* whether it returned a text that is not blank; an exception is False.
CheckProviderHealth(p) ==
    /\ chat.pc = "ready"
    /\ health.pc = "idle"
    /\ IF p \notin llm.clients
       THEN health' = [NoHealth EXCEPT !.pc = "done", !.provider = p]
       ELSE \E o \in ClientOutcomes(p) :
              health' = [pc |-> "done", provider |-> p, called |-> TRUE,
                         raised |-> o.raised, body |-> o.body,
                         healthy |-> ~o.raised /\ o.value # ""]
    /\ UNCHANGED <<llm, chat, response>>
    /\ UNCHANGED <<chunkVars, storeVars, searchVars, rankVars, ensureVars, cleanVars>>

ChatNext ==
    \/ \E key, built, ollamaUp \in BOOLEAN : InitializeClients(key, built, ollamaUp)
    \/ \E req \in Requests : ChatReceive(req)
    \/ RetrieveContext
    \/ BuildMessages
    \/ Generate
    \/ GenerationCompletes
    \/ Respond
    \/ RespondToException
    \/ \E req \in SimpleRequests : SimpleChatReceive(req)
    \/ SimpleGenerate
    \/ SimpleGenerationCompletes
    \/ SimpleRespond
    \/ SimpleRespondToException
    \/ \E p \in Providers : CheckProviderHealth(p)

----------------------------------------------------------------------------
(* A search request: SearchService.semantic_search over                     *)
(* VectorService.search, reading the index and the documents table.         *)

\* The documents the indexed points belong to.
SearchDocs == 1..2

\* search_service.py line 96: the least len(text.strip()) of a relevant hit
MinRelevantLength == 20
\* search_service.py line 106: the most long hex strings a relevant hit holds
MaxHexTokens == 2
\* search_service.py line 114: the most words of a query that needs an anchor
ShortQueryWords == 2
\* search_service.py line 31: the minimum threshold 0.1, in hundredths
MinScoreThreshold == 10

\* What _is_relevant_content measures of a hit's text: len(text),
\* len(text.strip()), the total length of the URLs found (line 101), the
\* number of hex strings of 32 or more characters (line 106), and whether a
\* query word longer than 2 occurs in it (line 115).
HitTexts ==
    {[len |-> MinRelevantLength, strip_len |-> MinRelevantLength,
      url_len |-> 0, hex_tokens |-> 0, anchored |-> TRUE],
     [len |-> MinRelevantLength + 2, strip_len |-> MinRelevantLength - 1,
      url_len |-> 0, hex_tokens |-> 0, anchored |-> TRUE],
     [len |-> 40, strip_len |-> 40, url_len |-> 29, hex_tokens |-> 0, anchored |-> TRUE],
     [len |-> 120, strip_len |-> 120, url_len |-> 0, hex_tokens |-> MaxHexTokens + 1,
      anchored |-> TRUE],
     [len |-> 40, strip_len |-> 40, url_len |-> 28, hex_tokens |-> MaxHexTokens,
      anchored |-> FALSE]}

\* SearchRequest (schemas/search.py lines 6-26): top_k >= 1; document_ids
\* after its validator, {} for None; score_threshold in hundredths; the
\* number of words of the query.
SearchRequests ==
    [top_k : {1, 2},
     document_ids : {{}, {1}, SearchDocs},
     score_threshold : {0, 80},
     query : [words : {1, 3}]]

\* _is_relevant_content, line 96.
LongEnoughMut(t) == t.strip_len > MinRelevantLength
LongEnough(t) == ~(t.strip_len < MinRelevantLength)

\* _is_relevant_content, lines 93-117.
IsRelevantContent(t, query) ==
    IF ~LongEnough(t) THEN FALSE
    ELSE IF 10 * t.url_len > 7 * t.len THEN FALSE
    ELSE IF t.hex_tokens > MaxHexTokens THEN FALSE
    ELSE IF query.words <= ShortQueryWords THEN t.anchored
    ELSE TRUE

\* VectorService.search, lines 116-124: the filter built from document_ids,
\* one must-condition per id; a point passes when every condition holds.
MatchesFilter(q, document_ids) ==
    document_ids = {} \/ \A id \in document_ids : q.document_id = id

\* The points of S as a list in descending order of score (scores differ).
ByScore(S, score) ==
    CHOOSE h \in [1..Cardinality(S) -> S] :
        \A a, b \in 1..Cardinality(S) : a < b => score[h[a].id] > score[h[b].id]

\* VectorService.search, lines 126-150: client.search returns the top_k
\* best points that pass the filter and reach the threshold; they are
\* formatted as hits.
VectorSearch(pts, score, top_k, document_ids, score_threshold) ==
    LET passing == {q \in pts : /\ MatchesFilter(q, document_ids)
                                /\ score[q.id] >= score_threshold}
        ranked == ByScore(passing, score)
        n == IF Len(ranked) < top_k THEN Len(ranked) ELSE top_k
    IN  [k \in 1..n |-> [id |-> ranked[k].id, score |-> score[ranked[k].id],
                         document_id |-> ranked[k].document_id,
                         text |-> ranked[k].text,
                         chunk_index |-> ranked[k].chunk_index]]

\* results.sort(key=score, reverse=True), line 76: a stable sort.
RECURSIVE SortByScore(_)
SortByScore(rs) ==
    IF rs = <<>> THEN <<>>
    ELSE LET best == CHOOSE k \in 1..Len(rs) :
                        /\ \A j \in 1..Len(rs) : rs[j].score <= rs[k].score
                        /\ \A j \in 1..(k - 1) : rs[j].score < rs[k].score
         IN  <<rs[best]>> \o SortByScore([j \in 1..(Len(rs) - 1) |->
                                            IF j < best THEN rs[j] ELSE rs[j + 1]])

NoSearch ==
    [pc |-> "idle",
     req |-> [top_k |-> 1, document_ids |-> {}, score_threshold |-> 0, query |-> [words |-> 1]],
     score |-> <<>>, vector_results |-> <<>>, i |-> 1, results |-> <<>>,
     seen_documents |-> {}, trace |-> <<>>]

SearchIdle == srch = NoSearch

\* The chunk_index of the k-th point of the index h: its document's chunks
\* are numbered from 0.
ChunkIndex(h, k) == Cardinality({j \in 1..(k - 1) : h[j][1] = h[k][1]})

\* The index h as points: h[k] is the document and the text of the point
\* that is the k-th most similar to the query.
PointsOf(h) ==
    {[id |-> <<h[k][1], ChunkIndex(h, k)>>, document_id |-> h[k][1],
      chunk_index |-> ChunkIndex(h, k), text |-> h[k][2]] : k \in 1..Len(h)}

\* The query's cosine similarity to each point of h, in hundredths: 0.9, 0.7, ...
ScoresOf(h) ==
    [id \in {<<h[k][1], ChunkIndex(h, k)>> : k \in 1..Len(h)} |->
        110 - 20 * (CHOOSE k \in 1..Len(h) : id = <<h[k][1], ChunkIndex(h, k)>>)]

\* The documents a search finds in the database: both uploads completed; or
\* the processing of document 1 failed and document 2 was deleted while its
\* points stayed.
SearchStores ==
    {[d \in SearchDocs |-> "completed"],
     [d \in {1} |-> "failed"]}

\* The points a failed upload left in the index.  add_documents (lines 52-94)
\* raises in a later batch after the earlier batches of BatchSize points were
\* upserted: a failed document has no point or one full batch.  The points of
\* that batch which are not among the ranked ones of h are unrelated to the
\* query.
UnrankedPoints(h, st) ==
    LET unrelated == CHOOSE t \in HitTexts : t.strip_len = MinRelevantLength
        ranked(d) == Cardinality({k \in 1..Len(h) : h[k][1] = d})
    IN  {[id |-> <<dj[1], dj[2]>>, document_id |-> dj[1], chunk_index |-> dj[2],
          text |-> unrelated] :
            dj \in {x \in (DOMAIN st) \X (0..(BatchSize - 1)) :
                       /\ st[x[1]] = "failed"
                       /\ ranked(x[1]) > 0
                       /\ x[2] >= ranked(x[1])}}

\* The index: the ranked points of h and the rest of a failed upload's batch.
IndexOf(h, st) == PointsOf(h) \cup UnrankedPoints(h, st)

\* The similarities of the index: those of h; an unrelated point stays under
\* the lowest threshold a search uses.
IndexScores(h, st) ==
    LET ranked == ScoresOf(h)
    IN  [id \in {q.id : q \in IndexOf(h, st)} |->
            IF id \in DOMAIN ranked THEN ranked[id] ELSE MinScoreThreshold \div 2]

\* The row of a document whose upload ended as st with the points pts.
StoredRow(st, pts) ==
    IF st = "completed"
    THEN CompletedRow(NewDocument(None), Cardinality(pts), {q.id : q \in pts})
    ELSE FailedRow([NewDocument(None) EXCEPT !.status = "processing"],
                   CHOOSE e \in UpsertErrors : TRUE)

\* The store a search runs against: MaxHits points ranked by their similarity
\* to the query, of uploads that completed or failed; the document of some
\* points may have been deleted while its points stayed.
SearchStart ==
    \E h \in [1..MaxHits -> SearchDocs \X HitTexts] :
      \E st \in SearchStores :
        \E req \in SearchRequests :
          /\ points = IndexOf(h, st)
          /\ documents = [d \in DOMAIN st |->
                StoredRow(st[d], {q \in PointsOf(h) : q.document_id = d})]
          /\ collections = <<>>
          /\ files = DOMAIN st
          /\ up = NoUpload
          /\ ghost = [d \in SearchDocs |->
                        [log |-> IF d \in DOMAIN st /\ st[d] = "failed"
                                 THEN <<"pending", "processing", "failed">>
                                 ELSE <<"pending", "processing", "completed">>,
                         raised |-> d \in DOMAIN st /\ st[d] = "failed",
                         upload |-> "returned", deleted |-> d \notin DOMAIN st,
                         response |->
                            [NoDocumentResponse EXCEPT
                               !.status = IF d \in DOMAIN st /\ st[d] = "failed"
                                          THEN "failed" ELSE "completed"]]]
          /\ srch = [NoSearch EXCEPT !.pc = "call", !.req = req,
                                     !.score = IndexScores(h, st)]

\* semantic_search, lines 27-36: the vector search is asked for 2 * top_k hits
\* at a threshold of at least 0.1; the loop's locals are set.
SearchVectors ==
    /\ srch.pc = "call"
    /\ srch' = [srch EXCEPT
                  !.pc = "loop",
                  !.vector_results =
                      VectorSearch(points, srch.score, srch.req.top_k * 2,
                                   srch.req.document_ids,
                                   IF srch.req.score_threshold > MinScoreThreshold
                                   THEN srch.req.score_threshold ELSE MinScoreThreshold),
                  !.i = 1, !.results = <<>>, !.seen_documents = {}]
    /\ UNCHANGED <<chunkVars, storeVars, chatVars, rankVars, ensureVars, cleanVars>>

\* vector_service.py lines 152-154 and search_service.py lines 89-91: the
\* index search raises and semantic_search raises with it.
SearchRaises ==
    /\ srch.pc = "call"
    /\ srch' = [srch EXCEPT !.pc = "raised"]
    /\ UNCHANGED <<chunkVars, storeVars, chatVars, rankVars, ensureVars, cleanVars>>

\* semantic_search, lines 38-73: one iteration of the loop over the hits.
SearchFilterStep ==
    /\ srch.pc = "loop"
    /\ srch.i <= Len(srch.vector_results)
    /\ LET result == srch.vector_results[srch.i]
           doc_id == result.document_id
           verdict == IF doc_id \in srch.seen_documents THEN "seen"
                      ELSE IF doc_id \notin DOMAIN documents THEN "no document"
                      ELSE IF ~IsRelevantContent(result.text, srch.req.query) THEN "irrelevant"
                      ELSE "kept"
           results == IF verdict = "kept"
                      THEN Append(srch.results,
                                  [id |-> result.id, score |-> result.score,
                                   document_id |-> doc_id,
                                   chunk_index |-> result.chunk_index])
                      ELSE srch.results
       IN  srch' = [srch EXCEPT
                      !.results = results,
                      !.seen_documents = IF verdict = "kept" THEN @ \cup {doc_id} ELSE @,
                      !.trace = Append(@, [hit |-> result, verdict |-> verdict]),
                      !.i = @ + 1,
                      !.pc = IF verdict = "kept" /\ Len(results) >= srch.req.top_k
                             THEN "break" ELSE "loop"]
    /\ UNCHANGED <<chunkVars, storeVars, chatVars, rankVars, ensureVars, cleanVars>>

\* semantic_search, lines 75-87: after the loop the results are sorted and returned.
SearchReturn ==
    /\ \/ srch.pc = "break"
       \/ srch.pc = "loop" /\ srch.i > Len(srch.vector_results)
    /\ srch' = [srch EXCEPT !.pc = "done", !.results = SortByScore(@)]
    /\ UNCHANGED <<chunkVars, storeVars, chatVars, rankVars, ensureVars, cleanVars>>

SearchNext == SearchVectors \/ SearchRaises \/ SearchFilterStep \/ SearchReturn

----------------------------------------------------------------------------
(* RAGService._filter_and_rank_chunks, one loop iteration per step.         *)

\* rag_service.py line 24
MaxContextLength == 4000
\* rag_service.py line 25: chunk_overlap_threshold 0.8, in tenths
OverlapThresholdTenths == 8

\* The texts of the chunks handed in: len(text) and set(text.lower().split()).
\* The second is a near-duplicate of the first (5 of 6 words shared).
RankTexts ==
    {[len |-> 40, words |-> 1..5],
     [len |-> 40, words |-> 1..6],
     [len |-> 40, words |-> {7}],
     [len |-> 40, words |-> {8}],
     [len |-> 2000, words |-> {9, 10}]}

\* The chunk lists handed in: up to MaxRankChunks SearchResults, in any order
\* of score; a chunk is named by its place in the list.
RankChunkLists ==
    UNION {{[k \in 1..n |-> [id |-> k, score |-> f[k][1], len |-> f[k][2].len,
                             words |-> f[k][2].words]] :
               f \in [1..n -> {90, 70} \X RankTexts]} : n \in 0..MaxRankChunks}

\* _calculate_text_similarity, lines 164-175, compared with the threshold on line 138.
TooSimilar(w1, w2) ==
    /\ w1 # {} /\ w2 # {}
    /\ 10 * Cardinality(w1 \cap w2) > OverlapThresholdTenths * Cardinality(w1 \cup w2)

\* Lines 133-143: the chunks kept after near-duplicates of earlier kept chunks are dropped.
RECURSIVE UniqueChunks(_, _)
UniqueChunks(cs, unique_chunks) ==
    IF cs = <<>> THEN unique_chunks
    ELSE UniqueChunks(Tail(cs),
                      IF \E k \in 1..Len(unique_chunks) :
                            TooSimilar(Head(cs).words, unique_chunks[k].words)
                      THEN unique_chunks ELSE Append(unique_chunks, Head(cs)))

\* Line 155: adding a text of n characters would exceed the budget.
ExceedsBudgetMut(total_length, n, budget) == total_length > budget
ExceedsBudget(total_length, n, budget) == total_length + n > budget

NoRank ==
    [pc |-> "idle", chunks |-> <<>>, max_chunks |-> 0, max_context_length |-> MaxContextLength,
     sorted_chunks |-> <<>>, i |-> 1, selected_chunks |-> <<>>, total_length |-> 0]

RankIdle == rank = NoRank

RankStart ==
    \E cs \in RankChunkLists : \E m \in 0..MaxRankChunks : \E budget \in {100, MaxContextLength} :
        rank = [NoRank EXCEPT !.pc = "call", !.chunks = cs, !.max_chunks = m,
                              !.max_context_length = budget]

\* Lines 129-150: nothing for no chunks; else near-duplicates are dropped and
\* the rest is sorted by descending score (a stable sort).
RankPrepare ==
    /\ rank.pc = "call"
    /\ rank' = IF rank.chunks = <<>>
               THEN [rank EXCEPT !.pc = "done"]
               ELSE [rank EXCEPT !.pc = "select",
                                 !.sorted_chunks = SortByScore(UniqueChunks(rank.chunks, <<>>)),
                                 !.i = 1, !.selected_chunks = <<>>, !.total_length = 0]
    /\ UNCHANGED <<chunkVars, storeVars, chatVars, searchVars, ensureVars, cleanVars>>

\* Lines 152-159: one iteration of the selection loop.
RankSelectStep ==
    /\ rank.pc = "select"
    /\ rank.i <= Len(rank.sorted_chunks)
    /\ LET chunk == rank.sorted_chunks[rank.i]
       IN  rank' = IF Len(rank.selected_chunks) >= rank.max_chunks
                   THEN [rank EXCEPT !.pc = "break"]
                   ELSE IF ExceedsBudget(rank.total_length, chunk.len, rank.max_context_length)
                   THEN [rank EXCEPT !.pc = "break"]
                   ELSE [rank EXCEPT !.selected_chunks = Append(@, chunk),
                                     !.total_length = @ + chunk.len,
                                     !.i = @ + 1]
    /\ UNCHANGED <<chunkVars, storeVars, chatVars, searchVars, ensureVars, cleanVars>>

\* Lines 161-162: after the loop selected_chunks is returned.
RankReturn ==
    /\ \/ rank.pc = "break"
       \/ rank.pc = "select" /\ rank.i > Len(rank.sorted_chunks)
    /\ rank' = [rank EXCEPT !.pc = "done"]
    /\ UNCHANGED <<chunkVars, storeVars, chatVars, searchVars, ensureVars, cleanVars>>

RankNext == RankPrepare \/ RankSelectStep \/ RankReturn

----------------------------------------------------------------------------
(* VectorService._ensure_collection, run by concurrent callers (each        *)
(* VectorService() runs it, line 23) against one Qdrant server.             *)

Callers == 1..MaxCallers

\* vector_service.py line 22
CollectionName == "documents"

NoEnsure == [pc |-> "start", saw_missing |-> FALSE, error |-> Null]

EnsureIdle == qdrant = {} /\ ensure = <<>>

\* The server holds any of the collections; no caller has begun.
EnsureStart ==
    /\ qdrant \in SUBSET {CollectionName, "other"}
    /\ ensure = [c \in Callers |-> NoEnsure]

\* Lines 28-29: the collections are listed and the name is looked for.
EnsureCheck(c) ==
    /\ ensure[c].pc = "start"
    /\ ensure' = [ensure EXCEPT ![c] =
                    IF CollectionName \in qdrant
                    THEN [@ EXCEPT !.pc = "done"]
                    ELSE [@ EXCEPT !.pc = "creating", !.saw_missing = TRUE]]
    /\ UNCHANGED qdrant
    /\ UNCHANGED <<chunkVars, storeVars, chatVars, searchVars, rankVars, cleanVars>>

\* What the server does with create_collection(name): it makes the
\* collection, or refuses a name it already holds.
CreateRefused(name) == name \in qdrant

\* Lines 30-38 and 41-43: create_collection; the server's refusal is raised
\* again by the handler.
EnsureCreate(c) ==
    /\ ensure[c].pc = "creating"
    /\ IF CreateRefused(CollectionName)
       THEN /\ ensure' = [ensure EXCEPT ![c].pc = "raised",
                                        ![c].error = "Collection documents already exists!"]
            /\ UNCHANGED qdrant
       ELSE /\ qdrant' = qdrant \cup {CollectionName}
            /\ ensure' = [ensure EXCEPT ![c].pc = "done"]
    /\ UNCHANGED <<chunkVars, storeVars, chatVars, searchVars, rankVars, cleanVars>>

\* Lines 41-43: the server cannot be reached on either call; the error is raised again.
EnsureConnectionFails(c) ==
    /\ ensure[c].pc \in {"start", "creating"}
    /\ ensure' = [ensure EXCEPT ![c].pc = "raised", ![c].error = "connection refused"]
    /\ UNCHANGED qdrant
    /\ UNCHANGED <<chunkVars, storeVars, chatVars, searchVars, rankVars, cleanVars>>

EnsureNext ==
    \E c \in Callers : EnsureCheck(c) \/ EnsureCreate(c) \/ EnsureConnectionFails(c)

----------------------------------------------------------------------------
(* SearchService._clean_and_highlight_text (search_service.py lines 119-133). *)
(* A text is a sequence of runs [ch, n]: n >= 1 times the character ch, with *)
(* different characters in adjacent runs.                                    *)

\* search_service.py line 125: the longest text shown uncut
DisplayLimit == 500
\* search_service.py line 127: where the search for a sentence end begins
SentenceSearchFrom == 400
\* search_service.py line 128: a cutoff has to lie after this position
MinCutoff == 300
\* len("...")
EllipsisLength == 3

\* How far around the three positions the sentence end of a text is placed.
MaxSlack == 1
\* The longest run of whitespace in a text.
MaxGap == 2

\* The runs of rs that are not empty.
Runs(rs) == SelectSeq(rs, LAMBDA r : r.n > 0)

\* len(text)
RECURSIVE RunsLen(_)
RunsLen(t) == IF t = <<>> THEN 0 ELSE Head(t).n + RunsLen(Tail(t))

\* The 0-based position of the first character of run i.
StartOf(t, i) == RunsLen(SubSeq(t, 1, i - 1))

\* text.strip(): leading and trailing whitespace goes.
StripRuns(t) ==
    LET keep == {i \in DOMAIN t : ~IsSpace(t[i].ch)}
    IN  IF keep = {} THEN <<>>
        ELSE SubSeq(t, CHOOSE i \in keep : \A j \in keep : i <= j, SetMax(keep))

\* re.sub(r'\s+', ' ', text): every run of whitespace becomes one space.
CollapseRuns(t) == [i \in DOMAIN t |-> IF IsSpace(t[i].ch) THEN [ch |-> " ", n |-> 1] ELSE t[i]]

\* text.find('. ', from): the first position at or after from of a "." that a
\* space follows, or -1.  Only the last "." of a run is followed by another
\* character than ".".
FindSentenceEnd(t, from) ==
    LET ends == {StartOf(t, i) + t[i].n - 1 :
                    i \in {j \in DOMAIN t : /\ t[j].ch = "."
                                             /\ j < Len(t)
                                             /\ t[j + 1].ch = " "}}
        found == {q \in ends : q >= from}
    IN  IF found = {} THEN -1 ELSE CHOOSE q \in found : \A r \in found : q <= r

\* text[:c]
Prefix(t, c) ==
    Runs([i \in DOMAIN t |->
            [ch |-> t[i].ch,
             n |-> IF StartOf(t, i) >= c THEN 0
                   ELSE IF StartOf(t, i) + t[i].n <= c THEN t[i].n
                   ELSE c - StartOf(t, i)]])

\* Line 128, the test of the cutoff.
GoodCutoff(cutoff) == cutoff > MinCutoff

\* _clean_and_highlight_text, lines 121-133: the display text, as its runs
\* before the marker and whether "..." was appended.
CleanAndHighlightText(raw) ==
    LET t == CollapseRuns(StripRuns(raw))
        cutoff == FindSentenceEnd(t, SentenceSearchFrom)
    IN  IF RunsLen(t) > DisplayLimit
        THEN IF GoodCutoff(cutoff)
             THEN [body |-> Prefix(t, cutoff + 1), ellipsis |-> TRUE]
             ELSE [body |-> Prefix(t, DisplayLimit), ellipsis |-> TRUE]
        ELSE [body |-> t, ellipsis |-> FALSE]

\* The positions of the "." of a hit text: around the three positions the
\* code names, and far behind the display limit.
SentencePositions ==
    UNION {(c - MaxSlack)..(c + MaxSlack) : c \in {MinCutoff, SentenceSearchFrom, DisplayLimit}}
        \cup {2 * DisplayLimit}

\* The hit texts: lead spaces, a words, a ".", gap spaces, tail more words.
CleanTexts ==
    {Runs(<<[ch |-> " ", n |-> lead], [ch |-> "a", n |-> a], [ch |-> ".", n |-> 1],
            [ch |-> " ", n |-> gap], [ch |-> "a", n |-> tail]>>) :
        lead \in {0, 1}, a \in SentencePositions, gap \in 0..MaxGap,
        tail \in {0, MaxSlack, DisplayLimit}}

NoClean == [pc |-> "idle", text |-> <<>>, out |-> [body |-> <<>>, ellipsis |-> FALSE]]

CleanIdle == clean = NoClean

\* semantic_search line 59: the text of a hit is handed to the cleanup.
CleanStart == \E t \in CleanTexts : clean = [NoClean EXCEPT !.pc = "call", !.text = t]

\* _clean_and_highlight_text runs and returns the display text.
CleanText ==
    /\ clean.pc = "call"
    /\ clean' = [clean EXCEPT !.pc = "done", !.out = CleanAndHighlightText(clean.text)]
    /\ UNCHANGED <<chunkVars, storeVars, chatVars, searchVars, rankVars, ensureVars>>

CleanNext == CleanText

----------------------------------------------------------------------------
(* The specifications. *)

Init == StoreInit /\ ChunkIdle /\ ChatIdle /\ SearchIdle /\ RankIdle /\ EnsureIdle /\ CleanIdle

Next == StoreNext

Spec == Init /\ [][Next]_vars

ChunkInit == ChunkStart /\ StoreInit /\ ChatIdle /\ SearchIdle /\ RankIdle /\ EnsureIdle /\ CleanIdle

SpecChunk == ChunkInit /\ [][ChunkNext]_vars

ChatInit == ChatStart /\ StoreInit /\ ChunkIdle /\ SearchIdle /\ RankIdle /\ EnsureIdle /\ CleanIdle

SpecChat == ChatInit /\ [][ChatNext]_vars

\* The chat service under the scheduling the code guarantees: every step of
\* the service's own code is taken once it is enabled, and the call to Ollama
\* ends because its health probe and its POST carry ClientTimeout(total=5) and
\* ClientTimeout(total=60) (llm_service.py lines 148 and 127).  The call to
\* Gemini, generate_content_async on lines 58-61, is awaited without a timeout:
\* nothing in the code makes it end, and no fairness is assumed for it.
ChatFairness ==
    /\ WF_vars(RetrieveContext)
    /\ WF_vars(BuildMessages)
    /\ WF_vars(Generate)
    /\ WF_vars(GenerationCompletes /\ chat.called = "ollama")
    /\ WF_vars(Respond)
    /\ WF_vars(RespondToException)
    /\ WF_vars(SimpleGenerate)
    /\ WF_vars(SimpleGenerationCompletes /\ chat.called = "ollama")
    /\ WF_vars(SimpleRespond)
    /\ WF_vars(SimpleRespondToException)

SpecChatLive == ChatInit /\ [][ChatNext]_vars /\ ChatFairness

SearchInit == SearchStart /\ ChunkIdle /\ ChatIdle /\ RankIdle /\ EnsureIdle /\ CleanIdle

SpecSearch == SearchInit /\ [][SearchNext]_vars

RankInit == RankStart /\ StoreInit /\ ChunkIdle /\ ChatIdle /\ SearchIdle /\ EnsureIdle /\ CleanIdle

SpecRank == RankInit /\ [][RankNext]_vars

EnsureInit == EnsureStart /\ StoreInit /\ ChunkIdle /\ ChatIdle /\ SearchIdle /\ RankIdle /\ CleanIdle

SpecEnsure == EnsureInit /\ [][EnsureNext]_vars

CleanInit ==
    CleanStart /\ StoreInit /\ ChunkIdle /\ ChatIdle /\ SearchIdle /\ RankIdle /\ EnsureIdle

SpecClean == CleanInit /\ [][CleanNext]_vars

----------------------------------------------------------------------------
(* Properties of the document store, checked under Spec. *)

\* C1: every vector point carries the document_id of an existing Document, and
\* no point of d remains once delete_document(d) has returned True.
C1_NoOrphanVectors ==
    /\ \A q \in points : q.document_id \in DOMAIN documents
    /\ \A d \in DOMAIN ghost :
          ghost[d].deleted => ~(\E q \in points : q.document_id = d)

\* C2: each collection's documents_count is the number of Document rows whose
\* collection_id is that collection's id.
C2_DocumentsCountIsMembership ==
    \A c \in DOMAIN collections :
        collections[c].documents_count = Cardinality(DocumentsOf(c))

\* C3: an upload whose processing does not raise commits pending, processing,
\* completed, in that order and nothing else; completed is terminal; a
\* completed document's chunks_count is the number of chunks produced and the
\* number of stored vector ids, which is 1 for a text no longer than chunk_size.
C3_PendingProcessingCompleted ==
    \A d \in DOMAIN ghost :
        /\ ~ghost[d].raised =>
              ghost[d].log \in {<<"pending">>, <<"pending", "processing">>,
                                <<"pending", "processing", "completed">>}
        /\ (~ghost[d].raised /\ ghost[d].upload = "returned") =>
              ghost[d].log = <<"pending", "processing", "completed">>
        /\ (\E k \in 1..Len(ghost[d].log) : ghost[d].log[k] = "completed") =>
              ghost[d].log = <<"pending", "processing", "completed">>
        /\ d \in DOMAIN documents =>
              /\ documents[d].status = ghost[d].log[Len(ghost[d].log)]
              /\ documents[d].status = "completed" =>
                    /\ documents[d].chunks_count = Cardinality(documents[d].vector_ids)
                    /\ (up.doc = d /\ up.pc = "returning") =>
                          /\ documents[d].chunks_count = up.n
                          /\ documents[d].vector_ids =
                                {q.id : q \in {x \in points : x.document_id = d}}
                          /\ up.tlen <= DefaultChunkSize => documents[d].chunks_count = 1

\* C3's case: an upload stored in two batches has returned completed.
C3_Witness ==
    \E d \in DOMAIN documents :
        /\ documents[d].status = "completed"
        /\ documents[d].chunks_count > BatchSize
        /\ ghost[d].upload = "returned"

----------------------------------------------------------------------------
(* Properties of the chat request, checked under SpecChat. *)

\* C5: when the selected provider's generation call raises, the ChatResponse
\* returned has success = false, a non-empty error, and the generic apology
\* as its message.
C5_ProviderFailureApologises ==
    (chat.pc = "responded" /\ chat.clientRaised) =>
        /\ response.success = FALSE
        /\ response.error \notin {Null, ""}
        /\ response.message = ChatApology

----------------------------------------------------------------------------
(* Properties of chunk_text, checked under SpecChunk. *)

Range(s) == {s[k] : k \in 1..Len(s)}

\* The walk runs with a valid configuration: chunkSize >= 1 and
\* 0 <= overlap < chunkSize, as lines 37-38 left them.
ValidCall == chunk_size >= 1 /\ overlap >= 0 /\ overlap < chunk_size

\* The text sliced by window w.
WinText(w) == Slice(text, w[1], w[2])

\* 0-based position p of the text lies in a window whose slice was returned.
InReturnedChunk(p) ==
    \E k \in 1..Len(wins) :
        /\ PyIndex(wins[k][1], Len(text)) <= p
        /\ p < PyIndex(wins[k][2], Len(text))
        /\ (strip(WinText(wins[k])) \in Range(chunks) \/ WinText(wins[k]) \in Range(chunks))

\* C6: with chunkSize >= 1 and 0 <= overlap < chunkSize every iteration of the
\* window walk strictly advances start (so the walk reaches start >= len(T)).
C6_WalkStrictlyAdvances ==
    [][(ValidCall /\ cpc = "loop" /\ cpc' = "loop") => start' > start]_vars

\* C7: a call with overlap >= chunkSize on a text longer than chunkSize stops
\* with a configuration error before the walk: it never cuts a window.
C7_InvalidOverlapFailsFast ==
    (cpc # "call" /\ argOverlap # None /\ argOverlap >= chunk_size /\ Len(text) > chunk_size)
        => wins = <<>>

\* C8: the spans behind the returned chunks cover the text: the first starts
\* at 0, consecutive spans leave no gap, the last ends at len(T), and every
\* non-whitespace character lies in a returned chunk.
C8_ChunksCoverText ==
    (cpc = "done" /\ ValidCall) =>
        /\ wins # <<>>
        /\ wins[1][1] = 0
        /\ \A k \in 1..(Len(wins) - 1) :
               wins[k + 1][1] >= 0 /\ wins[k + 1][1] <= wins[k][2]
        /\ wins[Len(wins)][2] >= Len(text)
        /\ \A p \in 0..(Len(text) - 1) : ~IsSpace(text[p + 1]) => InReturnedChunk(p)

\* C8's case: a walk that cut a window short at a boundary, overlapped, and returned.
C8_Witness ==
    /\ cpc = "done" /\ ValidCall
    /\ Len(wins) >= 2
    /\ overlap >= 1
    /\ wins[1][2] < chunk_size
    /\ \E p \in 1..Len(text) : IsSpace(text[p])

\* C9 as stated: every returned segment is non-empty after stripping.
C9_EverySegmentNonEmpty ==
    (cpc = "done" /\ ValidCall) => \A k \in 1..Len(chunks) : strip(chunks[k]) # <<>>

\* C9 as amended: every returned segment is non-empty after stripping, unless
\* the text is no longer than chunkSize and is empty or all whitespace (it is
\* then returned whole, as the only segment).
C9_SegmentsNonEmptyUnlessBlankShortText ==
    (cpc = "done" /\ ValidCall /\ ~(Len(text) <= chunk_size /\ strip(text) = <<>>))
        => \A k \in 1..Len(chunks) : strip(chunks[k]) # <<>>

\* C9's case: a returned walk one of whose windows held only whitespace.
C9_Witness ==
    /\ cpc = "done" /\ ValidCall
    /\ Len(text) > chunk_size
    /\ \E k \in 1..Len(wins) : WinText(wins[k]) # <<>> /\ strip(WinText(wins[k])) = <<>>
    /\ chunks # <<>>

\* C10: a text no longer than chunkSize comes back as exactly one segment,
\* equal to the text.
C10_ShortTextReturnedWhole ==
    (cpc = "done" /\ (Len(text) <= chunk_size \/ (argSize # None /\ Len(text) <= argSize)))
        => chunks = <<text>>

\* C10's case: a text exactly chunkSize long with whitespace at both ends.
C10_Witness ==
    /\ cpc = "done"
    /\ argSize = chunk_size
    /\ Len(text) = chunk_size
    /\ Len(text) >= 3
    /\ IsSpace(text[1]) /\ IsSpace(text[Len(text)])
    /\ \E p \in 1..Len(text) : ~IsSpace(text[p])
    /\ chunks = <<text>>

----------------------------------------------------------------------------
(* Properties of semantic_search, checked under SpecSearch. *)

\* The position of the first hit of document d in the list the vector search returned.
FirstHitOf(d) ==
    CHOOSE k \in 1..Len(srch.vector_results) :
        /\ srch.vector_results[k].document_id = d
        /\ \A j \in 1..(k - 1) : srch.vector_results[j].document_id # d

\* C11: the results of the filtering loop hold at most one hit per
\* document_id, and a document's surviving hit is its first, highest-scoring
\* candidate; a lower-scoring hit of the same document is never in the results.
C11_FirstHitOfDocumentWins ==
    \A a \in 1..Len(srch.results) :
        /\ \A b \in 1..Len(srch.results) :
              srch.results[a].document_id = srch.results[b].document_id => a = b
        /\ srch.results[a].id = srch.vector_results[FirstHitOf(srch.results[a].document_id)].id

\* C13: the relevance gate never keeps a hit whose trimmed text is under 20
\* characters, whatever the query; a hit whose trimmed text is exactly 20
\* characters long is kept by the gate when the URL, hex-token and query-term
\* checks pass.
C13_RelevanceGateLength ==
    \A k \in 1..Len(srch.trace) :
        LET t == srch.trace[k].hit.text
            verdict == srch.trace[k].verdict
        IN  /\ t.strip_len < 20 => verdict # "kept"
            /\ ( /\ verdict \in {"irrelevant", "kept"}
                 /\ t.strip_len = 20
                 /\ 10 * t.url_len <= 7 * t.len
                 /\ t.hex_tokens <= 2
                 /\ (srch.req.query.words > 2 \/ t.anchored) ) => verdict = "kept"

\* C13's case: the gate has dropped a hit of trimmed length 19 and kept one of
\* trimmed length 20, for a one-word query.
C13_Witness ==
    /\ srch.pc = "done"
    /\ srch.req.query.words = 1
    /\ \E k \in 1..Len(srch.trace) :
          srch.trace[k].verdict = "irrelevant" /\ srch.trace[k].hit.text.strip_len = 19
    /\ \E k \in 1..Len(srch.trace) :
          srch.trace[k].verdict = "kept" /\ srch.trace[k].hit.text.strip_len = 20

\* C19: a vector search with a non-empty document-id filter S returns only
\* hits whose document_id is in S, and returns every point of a document in S
\* that reaches the threshold and has fewer than top_k better-scoring such points.
C19_FilterRestrictsToDocumentSet ==
    (srch.pc \in {"loop", "break", "done"} /\ srch.req.document_ids # {}) =>
        LET S == srch.req.document_ids
            limit == srch.req.top_k * 2
            threshold == IF srch.req.score_threshold > MinScoreThreshold
                         THEN srch.req.score_threshold ELSE MinScoreThreshold
            eligible == {q \in points : q.document_id \in S /\ srch.score[q.id] >= threshold}
            returned == {srch.vector_results[k].id : k \in 1..Len(srch.vector_results)}
        IN  /\ \A k \in 1..Len(srch.vector_results) : srch.vector_results[k].document_id \in S
            /\ \A q \in eligible :
                  Cardinality({x \in eligible : srch.score[x.id] > srch.score[q.id]}) < limit
                      => q.id \in returned

----------------------------------------------------------------------------
(* Properties of _filter_and_rank_chunks, checked under SpecRank. *)

RECURSIVE SumLen(_)
SumLen(cs) == IF cs = <<>> THEN 0 ELSE Head(cs).len + SumLen(Tail(cs))

\* C12: the chunks selected are the chunks kept, taken in descending score
\* order up to the first one that would exceed a limit: there are at most
\* max_chunks of them and their text lengths sum to at most
\* max_context_length; with a budget of 100 and three kept chunks of length 40
\* exactly two are selected.
C12_GreedyWithinLimits ==
    rank.pc = "done" =>
        LET sel == rank.selected_chunks
            kept == SortByScore(UniqueChunks(rank.chunks, <<>>))
        IN  /\ Len(sel) <= rank.max_chunks
            /\ SumLen(sel) <= rank.max_context_length
            /\ Len(sel) <= Len(kept)
            /\ \A k \in 1..Len(sel) : sel[k] = kept[k]
            /\ \A k \in 1..(Len(sel) - 1) : sel[k].score >= sel[k + 1].score
            /\ Len(sel) < Len(kept) =>
                  \/ Len(sel) = rank.max_chunks
                  \/ SumLen(sel) + kept[Len(sel) + 1].len > rank.max_context_length
            /\ ( /\ rank.max_context_length = 100
                 /\ rank.max_chunks >= 2
                 /\ Len(kept) = 3
                 /\ \A k \in 1..3 : kept[k].len = 40 ) => Len(sel) = 2

\* C12's case: a budget of 100, three kept chunks of length 40 handed in in
\* ascending score order, room for three chunks, and two selected.
C12_Witness ==
    /\ rank.pc = "done"
    /\ rank.max_context_length = 100
    /\ rank.max_chunks = 3
    /\ Len(rank.chunks) = 3
    /\ Len(rank.sorted_chunks) = 3
    /\ \A k \in 1..3 : rank.chunks[k].len = 40
    /\ rank.chunks[1].score < rank.chunks[3].score
    /\ Len(rank.selected_chunks) = 2

----------------------------------------------------------------------------
(* Properties of the LLM gateway and of simple_chat, checked under SpecChat. *)

C15_UnavailableProviderListsAvailable ==
    ( /\ chat.pc \in {"failed", "responded", "simple_failed", "simple_responded"}
      /\ chat.pc \in {"failed", "responded"} => chat.messages # <<>>
      /\ chat.req.provider \in Providers
      /\ chat.req.provider \notin llm.clients ) =>
        /\ chat.called = Null
        /\ chat.exc = "Provider " \o chat.req.provider \o " not available. Available: "
                        \o (CASE llm.clients = {} -> "[]"
                              [] llm.clients = {"gemini"} -> "['gemini']"
                              [] llm.clients = {"ollama"} -> "['ollama']"
                              [] OTHER -> "")

\* C15's case: the local provider is asked for while only the cloud client exists.
C15_Witness ==
    /\ chat.pc = "failed"
    /\ chat.messages # <<>>
    /\ chat.req.provider = "ollama"
    /\ llm.clients = {"gemini"}

\* C16: check_provider_health reports healthy only if the provider's client
\* was called, did not raise, and the provider sent a non-empty response body.
C16_HealthyOnlyOnNonEmptyBody ==
    (health.pc = "done" /\ health.healthy) =>
        /\ health.called
        /\ ~health.raised
        /\ health.body \notin {Null, ""}

\* C17: a retrieval step that raised does not go on to prompt building and
\* generation; the request ends with success = false and a non-empty error.
C17_RetrievalFailureFailsRequest ==
    chat.searchRaised =>
        /\ chat.pc \notin {"prompt_built", "generating", "generated"}
        /\ chat.pc = "responded" =>
              response.success = FALSE /\ response.error \notin {Null, ""}

\* C18: every response of simple_chat to a failed provider call has
\* success = false and a non-empty error, and every response with
\* success = false has its error set.
C18_SimpleChatPackaging ==
    chat.pc = "simple_responded" =>
        /\ chat.clientRaised =>
              response.success = FALSE /\ response.error \notin {Null, ""}
        /\ response.success = FALSE => response.error # Null

----------------------------------------------------------------------------
(* Properties of _ensure_collection, checked under SpecEnsure. *)

\* C20: when two callers both saw the collection missing and both have
\* finished with the server reachable, both finished without error and the
\* collection exists.
C20_ConcurrentEnsureIsIdempotent ==
    \A a, b \in Callers :
        ( /\ a # b
          /\ ensure[a].saw_missing /\ ensure[b].saw_missing
          /\ ensure[a].pc \in {"done", "raised"} /\ ensure[b].pc \in {"done", "raised"}
          /\ ensure[a].error # "connection refused"
          /\ ensure[b].error # "connection refused" ) =>
            /\ ensure[a].pc = "done" /\ ensure[b].pc = "done"
            /\ CollectionName \in qdrant

\* C21: every generation call dispatched to a provider, cloud or local,
\* eventually completes with a response or an error even when the provider
\* never replies, so every chat request that was received eventually gets its
\* ChatResponse.
C21_EveryChatRequestReturns ==
    (chat.pc \in {"received", "simple_built"}) ~>
        (chat.pc \in {"responded", "simple_responded"})

\* The part of C21 the code guarantees: a call dispatched to Ollama ends.
C21_OllamaCallEnds ==
    (chat.pc \in {"generating", "simple_generating"} /\ chat.called = "ollama") ~>
        (chat.pc \in {"responded", "simple_responded"})

\* C22: the DocumentResponse returned by a successful upload of a plain-text
\* file reports status "pending", together with the uploaded filename and
\* content type.
C22_UploadResponseIsPending ==
    \A d \in DOMAIN ghost :
        ghost[d].upload = "returned" =>
            /\ ghost[d].response.status = "pending"
            /\ ghost[d].response.filename = UploadedFile.filename
            /\ ghost[d].response.content_type = UploadedFile.content_type

\* What the response of an upload does report: the status processing ended
\* in, with the filename and the content type of the upload.
C22_UploadResponseIsFinal ==
    \A d \in DOMAIN ghost :
        ghost[d].upload = "returned" =>
            /\ ghost[d].response.status \in {"completed", "failed"}
            /\ ghost[d].response.filename = UploadedFile.filename
            /\ ghost[d].response.content_type = UploadedFile.content_type

\* C23: the message list built for a chat request is one system message at
\* index 0, then the last min(10, n) entries of the n-entry history in their
\* order, then the new user message; without retrieved chunks the system
\* message is the generic prompt with no document blocks, else it has one
\* Document/Content block per chunk in retrieval order.
C23_MessageListShape ==
    chat.pc \in {"prompt_built", "generating", "generated", "failed", "responded"} =>
        LET h == chat.req.history
            n == Len(h)
            k == IF n < HistoryWindow THEN n ELSE HistoryWindow
            m == chat.messages
        IN  /\ Len(m) = k + 2
            /\ m[1].role = "system"
            /\ chat.sources = 0 => m[1].content = [kind |-> "generic", blocks |-> <<>>]
            /\ chat.sources > 0 =>
                  /\ m[1].content.kind = "documents"
                  /\ Len(m[1].content.blocks) = chat.sources
                  /\ \A i \in 1..chat.sources :
                        m[1].content.blocks[i] = [Document |-> i, Content |-> i]
            /\ \A i \in 1..k : /\ m[1 + i].role = h[n - k + i].role
                                /\ m[1 + i].content = h[n - k + i].content
            /\ m[k + 2] = [role |-> "user", content |-> "query"]

\* The requests for which the list is as C23 says: those without a history.
C23_MessageListWithoutHistory ==
    (chat.pc \in {"prompt_built", "generating", "generated", "responded"}
       /\ chat.messages # <<>>) =>
        /\ chat.req.history = <<>>
        /\ chat.messages = <<[role |-> "system",
                              content |-> [kind |-> "generic", blocks |-> <<>>]],
                             [role |-> "user", content |-> "query"]>>

\* C24: chat_with_documents forwards the caller's generation parameters to the
\* LLM gateway unchanged whenever they are supplied, temperature 0 and
\* max_results or max_tokens of 0 included; the defaults (max_tokens 1000,
\* temperature 0.7, 5 chunks) are used only when the parameter is absent.
C24_SuppliedParametersForwarded ==
    /\ chat.pc \in {"context_retrieved", "prompt_built", "generating", "generated",
                    "failed", "responded"} =>
          chat.top_k = IF chat.req.max_results = None THEN MaxContextChunks
                       ELSE chat.req.max_results
    /\ chat.pc \in {"generating", "generated"} =>
          /\ chat.sent.max_tokens = IF chat.req.max_tokens = None THEN DefaultMaxTokens
                                    ELSE chat.req.max_tokens
          /\ chat.sent.temperature = IF chat.req.temperature = None THEN DefaultTemperature
                                     ELSE chat.req.temperature

\* The cut C25 prescribes for the window starting at s: after the last "."
\* of the window that lies after the midpoint and is followed by a space,
\* else at the last whitespace after the midpoint, else at s + chunk_size.
\* Positions are 0-based.
PrescribedCut(s) ==
    LET mid == s + (chunk_size \div 2)
        inWindow == {p \in (mid + 1)..(s + chunk_size - 1) : p >= 0}
        sentenceCuts == {p \in inWindow : /\ text[p + 1] = "."
                                          /\ p + 2 <= Len(text)
                                          /\ text[p + 2] = " "}
        wordCuts == {p \in inWindow : IsSpace(text[p + 1])}
    IN  IF sentenceCuts # {} THEN SetMax(sentenceCuts) + 1
        ELSE IF wordCuts # {} THEN SetMax(wordCuts)
        ELSE s + chunk_size

\* C25: for a window [start, start + chunkSize) that ends before the end of
\* the text, the cut is just after the last "." followed by a space after
\* start + chunkSize/2 if there is one, else at the last whitespace after
\* start + chunkSize/2 if there is one, else at start + chunkSize; a "." not
\* followed by a space is never a sentence cut and no boundary at or before
\* the midpoint is used.
C25_CutPriority ==
    cpc \in {"loop", "done"} =>
        \A k \in 1..Len(wins) :
            (wins[k][1] >= 0 /\ wins[k][1] + chunk_size < Len(text)) =>
                wins[k][2] = PrescribedCut(wins[k][1])

\* len() of the display text.
DisplayLength(out) == RunsLen(out.body) + (IF out.ellipsis THEN EllipsisLength ELSE 0)

\* C26: the display text of a hit is at most 500 characters plus the
\* ellipsis; a text longer than 500 characters after whitespace collapsing is
\* cut at a sentence boundary between character 400 and character 500 if
\* there is one, else at character 500, and the ellipsis is appended exactly
\* when the text was truncated.
C26_DisplayTextBounded ==
    clean.pc = "done" =>
        LET t == CollapseRuns(StripRuns(clean.text))
            boundary == FindSentenceEnd(t, SentenceSearchFrom)
        IN  /\ DisplayLength(clean.out) <= DisplayLimit + EllipsisLength
            /\ clean.out.ellipsis <=> RunsLen(t) > DisplayLimit
            /\ RunsLen(t) <= DisplayLimit => clean.out.body = t
            /\ RunsLen(t) > DisplayLimit =>
                  clean.out.body =
                      IF boundary >= SentenceSearchFrom /\ boundary < DisplayLimit
                      THEN Prefix(t, boundary + 1)
                      ELSE Prefix(t, DisplayLimit)

\* C27: deleting a collection without force=true is rejected whenever at
\* least one Document has the collection's id as its collection_id, after any
\* sequence of uploads and deletes; on rejection the collection and all its
\* documents are unchanged.
C27_UnforcedDeleteRejected ==
    [][\A c \in ColIds :
          ( /\ c \in DOMAIN collections
            /\ DocumentsOf(c) # {}
            /\ EndpointDeleteCollection(c, FALSE) \/ ServiceDeleteCollection(c, FALSE) ) =>
              UNCHANGED <<collections, documents>>]_vars

\* The half of C27 that holds: CollectionService.delete_collection, which
\* counts the documents itself, rejects the unforced delete.
C27_ServiceRejectsUnforcedDelete ==
    [][\A c \in ColIds :
          ( /\ c \in DOMAIN collections
            /\ DocumentsOf(c) # {}
            /\ ServiceDeleteCollection(c, FALSE) ) =>
              UNCHANGED <<collections, documents>>]_vars

\* C28: chunk_text uses the caller's chunk_size and overlap whenever they are
\* supplied, overlap = 0 included: with overlap 0 each window starts exactly
\* where the previous chunk ended, and the configured default overlap is used
\* only when the argument is omitted.
C28_SuppliedOverlapUsed ==
    (cpc \in {"loop", "done"} /\ argSize \in 1..MaxArg) =>
        /\ chunk_size = argSize
        /\ overlap = IF argOverlap = None THEN DefaultChunkOverlap ELSE argOverlap
        /\ argOverlap = 0 =>
              \A k \in 1..(Len(wins) - 1) : wins[k + 1][1] = wins[k][2]

\* C29: delete_document is all-or-nothing: when it returns False for a
\* document that exists, the Document row, its stored file and all its vector
\* points are as they were before the call; when it returns True, all three
\* are gone.
C29_DeleteAllOrNothing ==
    [][\A d \in DocIds : \A vecFails, unlinkFails \in BOOLEAN :
          (d \in DOMAIN documents /\ DeleteDocument(d, vecFails, unlinkFails)) =>
              IF DeleteDocumentReturns(d, vecFails, unlinkFails)
              THEN /\ d \notin DOMAIN documents'
                   /\ d \notin files'
                   /\ ~(\E q \in points' : q.document_id = d)
              ELSE /\ documents' = documents
                   /\ files' = files
                   /\ points' = points]_vars

\* What delete_document does keep: the row and the file go together, and
\* exactly when it returns True.
C29_RowAndFileGoTogether ==
    [][\A d \in DocIds : \A vecFails, unlinkFails \in BOOLEAN :
          (d \in DOMAIN documents /\ DeleteDocument(d, vecFails, unlinkFails)) =>
              IF DeleteDocumentReturns(d, vecFails, unlinkFails)
              THEN d \notin DOMAIN documents' /\ d \notin files'
              ELSE documents' = documents /\ files' = files]_vars

\* C30: after any sequence of uploads, every result returned by
\* semantic_search references an existing Document whose status is
\* completed; chunks of a document whose processing ended in failed (for
\* example after a later upsert batch failed) are never returned.
C30_ResultsOfCompletedDocuments ==
    srch.pc = "done" =>
        \A k \in 1..Len(srch.results) :
            /\ srch.results[k].document_id \in DOMAIN documents
            /\ documents[srch.results[k].document_id].status = "completed"

\* The half of C30 that holds: every result references an existing Document.
C30_ResultsOfExistingDocuments ==
    srch.pc = "done" =>
        \A k \in 1..Len(srch.results) : srch.results[k].document_id \in DOMAIN documents
====
